---- MODULE Spec2Model ----
(***************************************************************************)
(* Society payment tracker bot (society-bot-python).                       *)
(*                                                                         *)
(* The model follows the dispatch of python-telegram-bot as the program    *)
(* configures it (Application.builder().token(token).build(), no           *)
(* concurrent_updates): one inbound update is handled to completion before *)
(* the next one is taken, so a handler is one action.  The state is the    *)
(* module-level state of the program (ADMIN_IDS, reset_confirmations), the *)
(* society_payments table, the wall clock, and a record of the update that *)
(* was handled last (what was sent, which controller operations ran).      *)
(*                                                                         *)
(* Every context.bot.send_message may raise (network), every controller    *)
(* operation may raise (database): both are inputs of the actions.         *)
(***************************************************************************)
EXTENDS Integers, Sequences, FiniteSets, Bags, TLC

VARIABLES
    ADMIN_IDS,            \* telegram_bot.ADMIN_IDS after load_admin_ids()
    reset_confirmations,  \* bot_routes.reset_confirmations: user_id -> timestamp
    society_payments,     \* rows of the table, in insertion (id) order
    clock,                \* datetime.now().timestamp(), in whole seconds
    ticks,                \* how often the clock has advanced (bounds the model)
    tmp_files,            \* export files present in tempfile.gettempdir()
    last                  \* the update handled last and what its handler did

vars == <<ADMIN_IDS, reset_confirmations, society_payments, clock, ticks, tmp_files, last>>

----------------------------------------------------------------------------
(* Bounds of the model *)

MaxTicks == 1
MaxRecords == 1
MaxTextLen == 4
MaxAmountLen == 4
MaxStoreRows == 3
MaxUpdates == 3

(* Program constants *)

RESET_TIMEOUT == 60
TableLimit == 20
MaxNameLen == 100

----------------------------------------------------------------------------
(* Users, time *)

Users == 1 .. 3
ConfiguredAdmins == {1, 2}    \* the ADMIN_IDS environment variable of this run
Deltas == {59, 60}            \* seconds that pass between two updates

----------------------------------------------------------------------------
(* Text: a message text is a sequence of characters *)

Letters == {"a"}
Digits == {"0", "1"}
Whitespace == {" ", "\n"}
Alphabet == {"a", "1", " ", "-"}     \* the characters of the enumerated texts

RECURSIVE SeqsUpTo(_, _)
SeqsUpTo(S, n) ==
    IF n = 0 THEN {<<>>}
    ELSE LET shorter == SeqsUpTo(S, n - 1)
         IN  shorter \cup {Append(s, c) : s \in {t \in shorter : Len(t) = n - 1}, c \in S}

\* every non-empty text up to the bound (filters.TEXT delivers no empty text)
Texts == SeqsUpTo(Alphabet, MaxTextLen) \ {<<>>}

\* the texts of the full state machine: one per path of handle_payment_message
ChatTexts ==
    { <<"a", "-", "1">>,            \* valid
      <<" ", "a", "-", "1">>,      \* valid after strip
      <<"a", "1">>,                 \* no hyphen
      <<"a", "-", "1", "-">>,      \* three segments
      <<"1", "-", "1">>,            \* bad name
      <<"a", "-", "0">> }           \* bad amount

\* str.strip()
RECURSIVE lstrip(_)
lstrip(s) ==
    IF s # <<>> /\ Head(s) \in Whitespace THEN lstrip(Tail(s)) ELSE s

RECURSIVE rstrip(_)
rstrip(s) ==
    IF s # <<>> /\ s[Len(s)] \in Whitespace THEN rstrip(SubSeq(s, 1, Len(s) - 1)) ELSE s

strip(s) == rstrip(lstrip(s))

\* str.split('-'): the segments between the hyphens, empty ones included
RECURSIVE split(_)
split(s) ==
    IF s = <<>> THEN << <<>> >>
    ELSE LET rest == split(Tail(s))
         IN  IF Head(s) = "-"
             THEN << <<>> >> \o rest
             ELSE << <<Head(s)>> \o Head(rest) >> \o Tail(rest)

\* (a variant that takes any text for a candidate)
has_hyphen_any(s) == s # <<>>

\* '-' in text
has_hyphen(s) == \E i \in 1 .. Len(s) : s[i] = "-"

----------------------------------------------------------------------------
(* Validators (services/telegram_bot.py) *)

\* the character class [a-zA-ZÀ-ɏḀ-ỿ] of the name pattern
name_class(c) == c \in Letters

\* re.match(r'^[...]+$', name): one or more characters of the class, then the
\* end of the string, which '$' also finds just before one trailing newline
pattern_match(name) ==
    LET body == IF name # <<>> /\ name[Len(name)] = "\n"
                THEN SubSeq(name, 1, Len(name) - 1) ELSE name
    IN  /\ body # <<>>
        /\ \A i \in 1 .. Len(body) : name_class(body[i])

is_valid_name(name) ==
    IF name = <<>> \/ Len(name) = 0 \/ Len(name) > MaxNameLen
    THEN FALSE
    ELSE pattern_match(name)

digit_value(c) ==
    CASE c = "0" -> 0 [] c = "1" -> 1 [] c = "2" -> 2 [] c = "3" -> 3
      [] c = "4" -> 4 [] c = "5" -> 5 [] c = "6" -> 6 [] c = "7" -> 7
      [] c = "8" -> 8 [] c = "9" -> 9

AllDigits == {"0", "1", "2", "3", "4", "5", "6", "7", "8", "9"}

is_digits(s) == \A i \in 1 .. Len(s) : s[i] \in AllDigits

RECURSIVE digits_value(_)
digits_value(s) ==
    IF s = <<>> THEN 0
    ELSE 10 * digits_value(SubSeq(s, 1, Len(s) - 1)) + digit_value(s[Len(s)])

\* index of the first "." of s, or 0
RECURSIVE point_index(_, _)
point_index(s, i) ==
    IF i > Len(s) THEN 0 ELSE IF s[i] = "." THEN i ELSE point_index(s, i + 1)

\* float(amount_str) for a string of digits, '.', a sign and blanks (the
\* characters of the model: no exponent, underscore, "inf" or "nan" is
\* spelled with them).  ok is FALSE where float() raises ValueError.
parse_float(amount_str) ==
    LET t      == strip(amount_str)
        signed == t # <<>> /\ Head(t) \in {"+", "-"}
        neg    == t # <<>> /\ Head(t) = "-"
        u      == IF signed THEN Tail(t) ELSE t
        p      == point_index(u, 1)
        w      == IF p = 0 THEN u ELSE SubSeq(u, 1, p - 1)
        f      == IF p = 0 THEN <<>> ELSE SubSeq(u, p + 1, Len(u))
    IN  IF is_digits(w) /\ is_digits(f) /\ Len(w) + Len(f) > 0
        THEN [ok |-> TRUE, neg |-> neg, whole |-> digits_value(w), frac |-> f]
        ELSE [ok |-> FALSE, neg |-> FALSE, whole |-> 0, frac |-> <<>>]

frac_digit(f, i) == IF i <= Len(f) THEN digit_value(f[i]) ELSE 0

frac_is_zero_from(f, i) == \A j \in i .. Len(f) : f[j] = "0"

\* the digits after the point of 99999999.990000002086162567138671875, the
\* midpoint between the double that the literal 99999999.99 denotes and the
\* next double: float() rounds a number below it to a double that compares
\* <= 99999999.99, and the midpoint itself (a tie, to even) to the next double
LimitMidFrac ==
    <<"9", "9", "0", "0", "0", "0", "0", "0", "2", "0", "8", "6", "1", "6", "2",
      "5", "6", "7", "1", "3", "8", "6", "7", "1", "8", "7", "5">>

\* 0.f < 0.g, from digit i on
RECURSIVE frac_less(_, _, _)
frac_less(f, g, i) ==
    IF i > Len(f) /\ i > Len(g) THEN FALSE
    ELSE IF frac_digit(f, i) < frac_digit(g, i) THEN TRUE
    ELSE IF frac_digit(f, i) > frac_digit(g, i) THEN FALSE
    ELSE frac_less(f, g, i + 1)

\* 0 < amount <= 99999999.99, on the double that float() returned (a text of
\* fewer than 324 digits that is not zero is not rounded to zero)
in_amount_range(v) ==
    /\ ~v.neg
    /\ v.whole > 0 \/ ~frac_is_zero_from(v.frac, 1)
    /\ \/ v.whole < 99999999
       \/ v.whole = 99999999 /\ frac_less(v.frac, LimitMidFrac, 1)

is_valid_amount(amount_str) ==
    LET v == parse_float(amount_str)
    IN  IF v.ok THEN in_amount_range(v) ELSE FALSE

\* the value the DECIMAL(10, 2) column keeps, in hundredths: the connector
\* writes repr(amount) into the statement (the number as it was typed, for a
\* text of up to 15 significant digits) and the server rounds it half up
decimal_10_2(v) ==
    100 * v.whole + 10 * frac_digit(v.frac, 1) + frac_digit(v.frac, 2)
        + (IF frac_digit(v.frac, 3) >= 5 THEN 1 ELSE 0)

\* f"{amount:.2f}" of the success reply, in hundredths: the hundredth nearest
\* to the double (for the digits 0, 1 and 9 of the enumerated amounts no
\* amount lies halfway between two hundredths)
format_2f(v) ==
    100 * v.whole + 10 * frac_digit(v.frac, 1) + frac_digit(v.frac, 2)
        + (IF frac_digit(v.frac, 3) >= 5 THEN 1 ELSE 0)

\* str.upper() and str.lower() of one character: "a" and "s" stand for the
\* letters with a one-letter uppercase form, and the uppercase form of "ß" is
\* the two letters "SS"; a character without case (a blank) stays
char_upper(c) ==
    CASE c = "a" -> <<"A">>
      [] c = "s" -> <<"S">>
      [] c = "ß" -> <<"S", "S">>
      [] OTHER   -> <<c>>

char_lower(c) ==
    CASE c = "A" -> <<"a">>
      [] c = "S" -> <<"s">>
      [] OTHER   -> <<c>>

RECURSIVE str_upper(_)
str_upper(s) == IF s = <<>> THEN <<>> ELSE char_upper(Head(s)) \o str_upper(Tail(s))

RECURSIVE str_lower(_)
str_lower(s) == IF s = <<>> THEN <<>> ELSE char_lower(Head(s)) \o str_lower(Tail(s))

\* (a variant that capitalizes every word: str.title())
RECURSIVE capitalize_title(_)
capitalize_title(text) ==
    IF text = <<>> THEN text
    ELSE LET init == SubSeq(text, 1, Len(text) - 1)
             c == <<text[Len(text)]>>
         IN  capitalize_title(init)
                 \o (IF init = <<>> \/ init[Len(init)] = " "
                     THEN str_upper(c) ELSE str_lower(c))

\* telegram_bot.capitalize_first_letter: text[0].upper() + text[1:].lower()
capitalize_first_letter(text) ==
    IF text = <<>> THEN text
    ELSE str_upper(<<text[1]>>) \o str_lower(Tail(text))

\* bot_routes.capitalize_first: the same statement
capitalize_first(text) ==
    IF text = <<>> THEN text
    ELSE str_upper(<<text[1]>>) \o str_lower(Tail(text))

----------------------------------------------------------------------------
(* The Bot Gateway: replies.  A reply is [kind, n]; n carries the one number *)
(* a claim reads from the text of the reply (0 where there is none).        *)

Msg(kind) == [kind |-> kind, n |-> 0]
MsgN(kind, n) == [kind |-> kind, n |-> n]

\* what a handler has done so far: the state it leaves, the replies it tried
\* to send (ok: the send returned; ~ok: it raised), the controller operations
\* it called, the files it wrote or removed, and whether an exception is
\* propagating
Ctx0 ==
    [payments |-> society_payments, confs |-> reset_confirmations,
     files |-> tmp_files, sent |-> <<>>, calls |-> <<>>, fs |-> <<>>, exc |-> FALSE]

\* the network during one handler run: the sends that fail, by their position
\* among the sends of the run (a handler sends at most four times)
Nets == SUBSET (1 .. 4)

\* await context.bot.send_message(chat_id, msg): raises when the send fails
send_message(c, msg, net) ==
    LET ok == (Len(c.sent) + 1) \notin net
    IN  [c EXCEPT !.sent = Append(@, [kind |-> msg.kind, n |-> msg.n, ok |-> ok]),
                  !.exc = ~ok]

called(c, op) == [c EXCEPT !.calls = Append(@, op)]

raised(c) == [c EXCEPT !.exc = TRUE]

----------------------------------------------------------------------------
(* The Payment Store (controllers/payment_controller.py, config/db.py).     *)
(* The connections are opened with autocommit, so every statement that ran  *)
(* stays; a statement that raises changes nothing.                          *)

DbOutcomes == {"ok", "error"}
InsertOutcomes == {"ok", "insert_error", "select_error"}

\* INSERT INTO society_payments (member_name, amount, recorded_by): the id is
\* AUTO_INCREMENT (TRUNCATE restarts it), payment_date is CURRENT_TIMESTAMP
\* (a variant that does not record the sender)
inserted_row_anonymous(rows, member_name, amount, recorded_by) ==
    [id |-> Len(rows) + 1, member_name |-> member_name,
     amount |-> decimal_10_2(amount), recorded_by |-> 0,
     payment_date |-> clock]

inserted_row(rows, member_name, amount, recorded_by) ==
    [id |-> Len(rows) + 1, member_name |-> member_name,
     amount |-> decimal_10_2(amount), recorded_by |-> recorded_by,
     payment_date |-> clock]

\* (a variant that writes over the table: REPLACE for INSERT)
insert_payment_replace(c, member_name, amount, recorded_by, db) ==
    LET c1 == called(c, "insert_payment")
        c2 == [c1 EXCEPT !.payments =
                  << inserted_row(<<>>, member_name, amount, recorded_by) >>]
    IN  CASE db = "insert_error" -> raised(c1)
          [] db = "select_error" -> raised(c2)
          [] OTHER               -> c2

\* PaymentController.insert_payment: INSERT, then SELECT the row back; raises
\* when either statement does
insert_payment(c, member_name, amount, recorded_by, db) ==
    LET c1 == called(c, "insert_payment")
        c2 == [c1 EXCEPT !.payments =
                  Append(@, inserted_row(@, member_name, amount, recorded_by))]
    IN  CASE db = "insert_error" -> raised(c1)
          [] db = "select_error" -> raised(c2)
          [] OTHER               -> c2

\* (a variant that is one too high)
total_payments_plus_one(rows) == Len(rows) + 1

\* PaymentController.get_payment_stats: total_payments is COUNT(*)
total_payments(rows) == Len(rows)

\* the outcomes of reset_all_payments: it returns, or a statement raises, or
\* both statements run and the connection.commit() of get_cursor raises
ResetOutcomes == {"ok", "error", "commit_error"}

\* PaymentController.reset_all_payments: SELECT COUNT(*), then TRUNCATE TABLE
\* (which takes effect when it runs), then the commit at the end of
\* get_cursor; returns deleted_count, raises when a statement or the commit
\* does
reset_all_payments(c, db) ==
    LET c1 == called(c, "reset_all_payments")
        c2 == [c1 EXCEPT !.payments = <<>>]
    IN  CASE db = "ok"           -> c2
          [] db = "commit_error" -> raised(c2)
          [] OTHER               -> raised(c1)

\* (a variant that counts after the TRUNCATE)
deleted_count_after(c) == 0

deleted_count(c) == Len(c.payments)

\* a controller operation that only reads
query(c, op, db) ==
    IF db = "ok" THEN called(c, op) ELSE raised(called(c, op))

----------------------------------------------------------------------------
(* Control flow shared by the handlers *)

\* except Exception: send the handler's error reply (which may raise again)
except_reply(c, msg, net) ==
    IF c.exc THEN send_message([c EXCEPT !.exc = FALSE], msg, net) ELSE c

\* (a variant that only logs the exception)
error_handler_silent(c, net) == [c EXCEPT !.exc = FALSE]

\* telegram_bot.error_handler: an exception that left a handler is answered
\* with the generic reply; a failure of that send is logged and dropped
error_handler(c, net) ==
    IF c.exc
    THEN [send_message([c EXCEPT !.exc = FALSE], Msg("GenericError"), net)
            EXCEPT !.exc = FALSE]
    ELSE c

\* (a variant that takes every user for an admin)
is_admin_anyone(user_id) == user_id \in Users

is_admin(user_id) == user_id \in ADMIN_IDS

\* telegram_bot.admin_only, when the user is no admin: the denial
admin_denied(net) == send_message(Ctx0, Msg("Denied"), net)

----------------------------------------------------------------------------
(* routes/bot_routes.py: the reset pair *)

has_confirmation(confs, user_id) == user_id \in DOMAIN confs

\* (a variant that takes the pending confirmation of any user)
confirmation_get_any(confs, user_id) ==
    IF DOMAIN confs # {} THEN confs[CHOOSE u \in DOMAIN confs : TRUE] ELSE 0

\* reset_confirmations.get(user_id); 0 stands for None (both are falsy)
confirmation_get(confs, user_id) ==
    IF has_confirmation(confs, user_id) THEN confs[user_id] ELSE 0

\* (a variant that keeps an entry that is there: setdefault)
confirmation_setdefault(confs, user_id, t) ==
    [u \in DOMAIN confs \cup {user_id} |-> IF u \in DOMAIN confs THEN confs[u] ELSE t]

\* reset_confirmations[user_id] = t
confirmation_set(confs, user_id, t) ==
    [u \in DOMAIN confs \cup {user_id} |-> IF u = user_id THEN t ELSE confs[u]]

\* (a variant that forgets every user: reset_confirmations.clear())
confirmation_clear(confs, user_id) == [u \in {} |-> 0]

\* reset_confirmations.pop(user_id, None)
confirmation_pop(confs, user_id) ==
    [u \in DOMAIN confs \ {user_id} |-> confs[u]]

\* not confirmation_time or (now - confirmation_time) >= RESET_TIMEOUT
confirmation_invalid(confirmation_time, now) ==
    confirmation_time = 0 \/ (now - confirmation_time) >= RESET_TIMEOUT

handle_reset_command(user_id, net, db) ==
    LET c1 == query(Ctx0, "get_payment_stats", db)
        body ==
            IF c1.exc THEN c1
            ELSE IF total_payments(c1.payments) = 0
            THEN send_message(c1, Msg("NoRecordsToDelete"), net)
            ELSE send_message(
                     [c1 EXCEPT !.confs = confirmation_set(@, user_id, clock)],
                     MsgN("ResetWarning", total_payments(c1.payments)), net)
    IN  except_reply(body, Msg("ResetRequestError"), net)

handle_confirm_reset_command(user_id, net, db) ==
    LET confirmation_time == confirmation_get(reset_confirmations, user_id)
        now == clock
        body ==
            IF confirmation_invalid(confirmation_time, now)
            THEN LET c1 == send_message(Ctx0, Msg("NoValidReset"), net)
                 IN  IF c1.exc THEN c1
                     ELSE [c1 EXCEPT !.confs = confirmation_pop(@, user_id)]
            ELSE LET c1 == [Ctx0 EXCEPT !.confs = confirmation_pop(@, user_id)]
                     c2 == reset_all_payments(c1, db)
                 IN  IF c2.exc THEN c2
                     ELSE send_message(c2, MsgN("ResetComplete", deleted_count(c1)), net)
    IN  except_reply(body, Msg("ResetError"), net)

----------------------------------------------------------------------------
(* services/telegram_bot.py: the message handler *)

\* (a variant that only asks for two segments or more)
wrong_segment_count_less(parts) == Len(parts) < 2

\* len(parts) != 2
wrong_segment_count(parts) == Len(parts) # 2

\* the three replies to a message that is no payment: the same literal
reply_bad_parts == Msg("InvalidFormat")
reply_bad_name == Msg("InvalidFormat")
\* (a variant that names the failing check)
reply_bad_amount_named == Msg("InvalidAmount")
reply_bad_amount == Msg("InvalidFormat")

handle_payment_message(user_id, message_text, net, db) ==
    LET text == strip(message_text)
        parts == split(text)
        name == strip(parts[1])
        amount_str == strip(parts[2])
        body ==
            LET c1 == insert_payment(Ctx0, name, parse_float(amount_str), user_id, db)
            IN  IF c1.exc THEN c1
                ELSE send_message(c1, MsgN("Success", format_2f(parse_float(amount_str))), net)
    IN  IF message_text = <<>> THEN Ctx0
        ELSE IF ~has_hyphen(text) THEN Ctx0
        ELSE IF wrong_segment_count(parts)
        THEN send_message(Ctx0, reply_bad_parts, net)
        ELSE IF ~is_valid_name(name)
        THEN send_message(Ctx0, reply_bad_name, net)
        ELSE IF ~is_valid_amount(amount_str)
        THEN send_message(Ctx0, reply_bad_amount, net)
        ELSE except_reply(body, Msg("PaymentFailed"), net)

----------------------------------------------------------------------------
(* routes/bot_routes.py: the reporting handlers *)

\* LOWER(member_name) = LOWER(%s)
lower_char(c) == IF c = "A" THEN "a" ELSE c
lower(s) == [i \in 1 .. Len(s) |-> lower_char(s[i])]

member_rows(rows, member_name) ==
    SelectSeq(rows, LAMBDA r : lower(r.member_name) = lower(member_name))

handle_table_command(net, db) ==
    LET c1 == query(Ctx0, "get_last_payments", db)
        body ==
            IF c1.exc THEN c1
            ELSE IF c1.payments = <<>>
            THEN send_message(c1, Msg("NoRecordsFound"), net)
            ELSE send_message(c1, MsgN("Table", Len(c1.payments)), net)
    IN  except_reply(body, Msg("TableError"), net)

\* (a variant with an empty-state message for a day without payments)
today_reply_empty_state(count) ==
    IF count = 0 THEN Msg("NoRecordsFound") ELSE MsgN("TodayTotal", count)

\* the reply of /today: the day's total and the number of payments, which
\* COUNT(*) and COALESCE(SUM(amount), 0) give for any day (a row of the model
\* is a row of the running day and month)
today_reply(count) == MsgN("TodayTotal", count)

month_reply(count) == MsgN("MonthTotal", count)

handle_today_command(net, db) ==
    LET c1 == query(Ctx0, "get_today_total", db)
        body ==
            IF c1.exc THEN c1
            ELSE send_message(c1, today_reply(Len(c1.payments)), net)
    IN  except_reply(body, Msg("TodayError"), net)

handle_month_command(net, db) ==
    LET c1 == query(Ctx0, "get_month_total", db)
        body ==
            IF c1.exc THEN c1
            ELSE send_message(c1, month_reply(Len(c1.payments)), net)
    IN  except_reply(body, Msg("MonthError"), net)

\* (a variant that looks the member up before it checks the arguments)
handle_member_command_eager(args, net, db) ==
    LET c1 == query(Ctx0, "get_member_payments", db)
        name == IF args = <<>> THEN <<>> ELSE args[1]
        body ==
            IF c1.exc THEN c1
            ELSE IF args = <<>>
            THEN send_message(c1, Msg("MemberUsage"), net)
            ELSE IF member_rows(c1.payments, name) = <<>>
            THEN send_message(c1, Msg("NoMemberRecords"), net)
            ELSE send_message(c1,
                     MsgN("MemberHistory", Len(member_rows(c1.payments, name))), net)
    IN  except_reply(body, Msg("MemberError"), net)

\* handle_member_command: without context.args the usage message, and return;
\* else get_member_payments(context.args[0])
handle_member_command(args, net, db) ==
    LET c1 == query(Ctx0, "get_member_payments", db)
        body ==
            IF c1.exc THEN c1
            ELSE IF member_rows(c1.payments, args[1]) = <<>>
            THEN send_message(c1, Msg("NoMemberRecords"), net)
            ELSE send_message(c1,
                     MsgN("MemberHistory", Len(member_rows(c1.payments, args[1]))), net)
    IN  IF args = <<>>
        THEN send_message(Ctx0, Msg("MemberUsage"), net)
        ELSE except_reply(body, Msg("MemberError"), net)

handle_stats_command(net, db) ==
    LET c1 == query(Ctx0, "get_payment_stats", db)
        body ==
            IF c1.exc THEN c1
            ELSE IF total_payments(c1.payments) = 0
            THEN send_message(c1, Msg("NoRecordsFound"), net)
            ELSE send_message(c1, MsgN("Stats", total_payments(c1.payments)), net)
    IN  except_reply(body, Msg("StatsError"), net)

FsOutcomes == {"ok", "save_error", "remove_error"}

\* society_payments_<timestamp>.xlsx: one name per clock second
export_filepath == clock

RECURSIVE total_amount(_)
total_amount(payments) ==
    IF payments = <<>> THEN 0
    ELSE total_amount(SubSeq(payments, 1, Len(payments) - 1)) + payments[Len(payments)].amount

\* summary_row = len(payments) + 3
summary_row(payments) == Len(payments) + 3

\* the worksheet, row by row: the headers in row 1, the payments from row 2
\* on, TOTAL and the total amount in summary_row; a row no cell was written
\* to is empty
worksheet(payments) ==
    [row \in 1 .. summary_row(payments) |->
        IF row = 1 THEN [kind |-> "header", amount |-> 0]
        ELSE IF row = summary_row(payments)
        THEN [kind |-> "TOTAL", amount |-> total_amount(payments)]
        ELSE IF row - 1 <= Len(payments)
        THEN [kind |-> "payment", amount |-> payments[row - 1].amount]
        ELSE [kind |-> "empty", amount |-> 0]]

\* a file operation of the handler: wb.save(filepath) or os.remove(filepath)
file_op(c, op, ok, sheet) ==
    [c EXCEPT !.fs = Append(@, [op |-> op, ok |-> ok, sheet |-> sheet])]

\* (a variant that removes the file at the end of the try block: not after an
\* exception)
cleanup_in_try(c, has_filepath, fs) ==
    IF has_filepath /\ export_filepath \in c.files
          /\ \A i \in 1 .. Len(c.sent) : c.sent[i].kind # "ExportError"
    THEN IF fs = "remove_error"
         THEN file_op(c, "remove", FALSE, <<>>)
         ELSE [file_op(c, "remove", TRUE, <<>>) EXCEPT !.files = @ \ {export_filepath}]
    ELSE c

\* the finally clause: if filepath and os.path.exists(filepath), os.remove it;
\* an os.remove that raises is logged and the file stays
cleanup(c, has_filepath, fs) ==
    IF has_filepath /\ export_filepath \in c.files
    THEN IF fs = "remove_error"
         THEN file_op(c, "remove", FALSE, <<>>)
         ELSE [file_op(c, "remove", TRUE, <<>>) EXCEPT !.files = @ \ {export_filepath}]
    ELSE c

\* handle_export_command: the file is written by wb.save (which may raise),
\* sent with send_document, and removed in the finally clause (a failing
\* os.remove is logged and dropped)
handle_export_command(net, db, fs) ==
    LET c1 == send_message(Ctx0, Msg("Generating"), net)
        c2 == query(c1, "get_all_payments", db)
        \* filepath is assigned once the records are there
        has_filepath == ~c1.exc /\ ~c2.exc /\ c2.payments # <<>>
        saved == [file_op(c2, "save", TRUE, worksheet(c2.payments))
                     EXCEPT !.files = @ \cup {export_filepath}]
        body ==
            IF c1.exc THEN c1
            ELSE IF c2.exc THEN c2
            ELSE IF c2.payments = <<>>
            THEN send_message(c2, Msg("NoRecordsToExport"), net)
            ELSE IF fs = "save_error" THEN raised(file_op(c2, "save", FALSE, <<>>))
            ELSE send_message(saved, MsgN("Document", Len(c2.payments)), net)
        handled == except_reply(body, Msg("ExportError"), net)
    IN  cleanup(handled, has_filepath, fs)

\* start_command / help_command
start_command(net) == send_message(Ctx0, Msg("Welcome"), net)
help_command(user_id, net) ==
    send_message(Ctx0, MsgN("Help", IF is_admin(user_id) THEN 1 ELSE 0), net)

----------------------------------------------------------------------------
(* The dispatch loop: one update is handled to completion *)

Idle ==
    [handler |-> "none", user |-> 0, text |-> <<>>, args |-> <<>>,
     sent |-> <<>>, calls |-> <<>>, fs |-> <<>>, db |-> "ok", pending |-> 0,
     rows |-> 0]

NoConfirmations == [u \in {} |-> 0]

Init ==
    /\ ADMIN_IDS = ConfiguredAdmins
    /\ reset_confirmations = NoConfirmations
    /\ society_payments = <<>>
    /\ clock = 1000
    /\ ticks = 0
    /\ tmp_files = {}
    /\ last = Idle

\* (a variant in which a handled update takes its sender out of the admin set)
Handle_demoting(handler, user_id, text, args, c, net, db) ==
    LET done == error_handler(c, net)
    IN  /\ Len(done.payments) <= MaxRecords
        /\ \A k \in net : k <= Len(done.sent)
        /\ done.calls = <<>> => db = "ok"
        /\ society_payments' = done.payments
        /\ reset_confirmations' = done.confs
        /\ tmp_files' = done.files
        /\ last' = [handler |-> handler, user |-> user_id, text |-> text,
                    args |-> args, sent |-> done.sent, calls |-> done.calls,
                    fs |-> done.fs, db |-> db,
                    pending |-> confirmation_get(reset_confirmations, user_id),
                    rows |-> Len(society_payments)]
        /\ ADMIN_IDS' = ADMIN_IDS \ {user_id}
        /\ UNCHANGED <<clock, ticks>>

\* Application.process_update: run the handler; an exception that leaves it
\* goes to error_handler.  last records the update and, from the state before
\* it, the sender's pending confirmation and the number of rows.
Handle(handler, user_id, text, args, c, net, db) ==
    LET done == error_handler(c, net)
    IN  /\ Len(done.payments) <= MaxRecords
        \* one input per run of the handler: only a send that was made fails
        /\ \A k \in net : k <= Len(done.sent)
        /\ done.calls = <<>> => db = "ok"
        /\ society_payments' = done.payments
        /\ reset_confirmations' = done.confs
        /\ tmp_files' = done.files
        /\ last' = [handler |-> handler, user |-> user_id, text |-> text,
                    args |-> args, sent |-> done.sent, calls |-> done.calls,
                    fs |-> done.fs, db |-> db,
                    pending |-> confirmation_get(reset_confirmations, user_id),
                    rows |-> Len(society_payments)]
        /\ UNCHANGED <<ADMIN_IDS, clock, ticks>>

\* (a variant that runs the handler without the admin check)
admin_command_unchecked(handler, user_id, args, c, net, db) ==
    Handle(handler, user_id, <<>>, args, c, net, db)

\* an admin command: admin_only, then the handler of bot_routes
admin_command(handler, user_id, args, c, net, db) ==
    Handle(handler, user_id, <<>>, args,
           IF is_admin(user_id) THEN c ELSE admin_denied(net), net, db)

MemberArgs == {<<>>, <<<<"a">>>>, <<<<"A">>>>}

StartCommand ==
    /\ last = Idle
    /\ \E u \in Users, net \in Nets :
        Handle("start", u, <<>>, <<>>, start_command(net), net, "ok")

HelpCommand ==
    /\ last = Idle
    /\ \E u \in Users, net \in Nets :
        Handle("help", u, <<>>, <<>>, help_command(u, net), net, "ok")

TableCommand ==
    /\ last = Idle
    /\ \E u \in Users, net \in Nets, db \in DbOutcomes :
        admin_command("table", u, <<>>, handle_table_command(net, db), net, db)

TodayCommand ==
    /\ last = Idle
    /\ \E u \in Users, net \in Nets, db \in DbOutcomes :
        admin_command("today", u, <<>>, handle_today_command(net, db), net, db)

MonthCommand ==
    /\ last = Idle
    /\ \E u \in Users, net \in Nets, db \in DbOutcomes :
        admin_command("month", u, <<>>, handle_month_command(net, db), net, db)

MemberCommand ==
    /\ last = Idle
    /\ \E u \in Users, args \in MemberArgs, net \in Nets, db \in DbOutcomes :
        admin_command("member", u, args, handle_member_command(args, net, db), net, db)

ExportCommand(outcomes) ==
    /\ last = Idle
    /\ \E u \in Users, net \in Nets, db \in DbOutcomes, fs \in outcomes :
        admin_command("export", u, <<>>, handle_export_command(net, db, fs), net, db)

StatsCommand ==
    /\ last = Idle
    /\ \E u \in Users, net \in Nets, db \in DbOutcomes :
        admin_command("stats", u, <<>>, handle_stats_command(net, db), net, db)

ResetCommand ==
    /\ last = Idle
    /\ \E u \in Users, net \in Nets, db \in DbOutcomes :
        admin_command("reset", u, <<>>, handle_reset_command(u, net, db), net, db)

ConfirmResetCommand ==
    /\ last = Idle
    /\ \E u \in Users, net \in Nets, db \in ResetOutcomes :
        admin_command("confirm_reset", u, <<>>,
                      handle_confirm_reset_command(u, net, db), net, db)

\* a text message that is no command, drawn from texts
PaymentMessage(texts) ==
    /\ last = Idle
    /\ \E u \in Users, text \in texts, net \in Nets, db \in InsertOutcomes :
        Handle("payment_message", u, text, <<>>,
               handle_payment_message(u, text, net, db), net, db)

\* time passes between two updates
Tick ==
    \E d \in Deltas :
        /\ last = Idle
        /\ ticks < MaxTicks
        /\ clock' = clock + d
        /\ ticks' = ticks + 1
        /\ last' = Idle
        /\ UNCHANGED <<ADMIN_IDS, reset_confirmations, society_payments, tmp_files>>

\* the update loop of the Application (started in main.py) goes back to
\* waiting for the next update once the handler has returned
update_fetcher ==
    /\ last # Idle
    /\ last' = Idle
    /\ UNCHANGED <<ADMIN_IDS, reset_confirmations, society_payments, clock, ticks,
                   tmp_files>>

Next ==
    \/ StartCommand
    \/ HelpCommand
    \/ TableCommand
    \/ TodayCommand
    \/ MonthCommand
    \/ MemberCommand
    \/ ExportCommand({"ok", "save_error"})
    \/ StatsCommand
    \/ ResetCommand
    \/ ConfirmResetCommand
    \/ PaymentMessage(ChatTexts)
    \/ Tick
    \/ update_fetcher

Spec == Init /\ [][Next]_vars

----------------------------------------------------------------------------
(* The message handler on every text up to MaxTextLen: one message, from any *)
(* sender, is handled in a state with an empty table or with one row.       *)

SeedTables ==
    { <<>>,
      << [id |-> 1, member_name |-> <<"a">>, amount |-> 100, recorded_by |-> 3,
          payment_date |-> 1000] >> }

InitMsg ==
    /\ ADMIN_IDS = ConfiguredAdmins
    /\ reset_confirmations = NoConfirmations
    /\ society_payments \in SeedTables
    /\ clock = 1000
    /\ ticks = 0
    /\ tmp_files = {}
    /\ last = Idle

NextMsg == PaymentMessage(Texts)

SpecMsg == InitMsg /\ [][NextMsg]_vars

----------------------------------------------------------------------------
(* The message handler on amounts with a fraction: one message name-amount, *)
(* the amount any string of digits and points up to MaxAmountLen, is handled *)
(* in a state with an empty table.                                          *)

FractionAlphabet == {"0", "1", "9", "."}
AmountTexts == { <<"a", "-">> \o t : t \in SeqsUpTo(FractionAlphabet, MaxAmountLen) }

InitAmount ==
    /\ ADMIN_IDS = ConfiguredAdmins
    /\ reset_confirmations = NoConfirmations
    /\ society_payments = <<>>
    /\ clock = 1000
    /\ ticks = 0
    /\ tmp_files = {}
    /\ last = Idle

NextAmount == PaymentMessage(AmountTexts)

SpecAmount == InitAmount /\ [][NextAmount]_vars

----------------------------------------------------------------------------
(* /export with every outcome of the file system: exports, from any user,   *)
(* on an empty table or on one row, with time passing between them; a file  *)
(* that could not be removed stays in the temporary directory.              *)

InitExport ==
    /\ ADMIN_IDS = ConfiguredAdmins
    /\ reset_confirmations = NoConfirmations
    /\ society_payments \in SeedTables
    /\ clock = 1000
    /\ ticks = 0
    /\ tmp_files = {}
    /\ last = Idle

NextExport == ExportCommand(FsOutcomes) \/ Tick \/ update_fetcher

SpecExport == InitExport /\ [][NextExport]_vars

----------------------------------------------------------------------------
(* The Payment Store by itself, statement by statement.  The table lives in *)
(* a MySQL server; the controller takes a pooled connection for each call,  *)
(* with autocommit and without a lock, so between two statements of one call *)
(* another session may write.  last is the store operation that ran last.   *)

StoreOp(operation, result) == [handler |-> operation, result |-> result]

Orders(n) == { f \in [1 .. n -> 1 .. n] : \A i, j \in 1 .. n : f[i] = f[j] => i = j }

first_rows(rows, limit) == SubSeq(rows, 1, IF Len(rows) < limit THEN Len(rows) ELSE limit)

\* PaymentController.get_last_payments: ORDER BY payment_date DESC LIMIT %s.
\* The server returns rows of equal payment_date (a DATETIME, whole seconds)
\* in any order: every result the statement may give.
get_last_payments(rows, limit) ==
    { first_rows([i \in 1 .. Len(rows) |-> rows[f[i]]], limit) :
        f \in { g \in Orders(Len(rows)) :
                  \A i, j \in 1 .. Len(rows) :
                      i < j => rows[g[i]].payment_date >= rows[g[j]].payment_date } }

InitStore ==
    /\ ADMIN_IDS = ConfiguredAdmins
    /\ reset_confirmations = NoConfirmations
    /\ society_payments = <<>>
    /\ clock = 1000
    /\ ticks = 0
    /\ tmp_files = {}
    /\ last = StoreOp("none", <<>>)

StoreUnchanged == UNCHANGED <<ADMIN_IDS, reset_confirmations, clock, ticks, tmp_files>>

\* insert_payment returns the row it wrote
InsertPayment ==
    /\ last.handler # "count_query"
    /\ Len(society_payments) < MaxStoreRows
    /\ \E user_id \in Users :
        LET c == insert_payment(Ctx0, <<"a">>, parse_float(<<"1">>), user_id, "ok")
        IN  /\ society_payments' = c.payments
            /\ last' = StoreOp("insert_payment", c.payments[Len(c.payments)])
    /\ StoreUnchanged

GetLastPayments ==
    /\ last.handler # "count_query"
    /\ \E payments \in get_last_payments(society_payments, TableLimit) :
        last' = StoreOp("get_last_payments", payments)
    /\ UNCHANGED society_payments
    /\ StoreUnchanged

\* reset_all_payments, first statement: SELECT COUNT(*)
CountQuery ==
    /\ last.handler # "count_query"
    /\ last' = StoreOp("count_query", Len(society_payments))
    /\ UNCHANGED society_payments
    /\ StoreUnchanged

\* an INSERT of another session while reset_all_payments is between its two
\* statements
OtherSessionInsert ==
    /\ last.handler = "count_query"
    /\ Len(society_payments) < MaxStoreRows
    /\ \E user_id \in Users :
        society_payments' =
            insert_payment(Ctx0, <<"a">>, parse_float(<<"1">>), user_id, "ok").payments
    /\ UNCHANGED last
    /\ StoreUnchanged

\* reset_all_payments, second statement: TRUNCATE TABLE, and the return of
\* {'deleted_count': the count read before}; removed is what the statement
\* took out of the table
TruncateQuery ==
    /\ last.handler = "count_query"
    /\ society_payments' = <<>>
    /\ last' = StoreOp("reset_all_payments",
                       [deleted_count |-> last.result, removed |-> Len(society_payments)])
    /\ StoreUnchanged

\* a second passes (CURRENT_TIMESTAMP of the server)
StoreTick ==
    /\ last.handler # "count_query"
    /\ ticks < MaxTicks
    /\ clock' = clock + 1
    /\ ticks' = ticks + 1
    /\ last' = StoreOp("none", <<>>)
    /\ UNCHANGED <<ADMIN_IDS, reset_confirmations, society_payments, tmp_files>>

NextStore ==
    \/ InsertPayment
    \/ GetLastPayments
    \/ CountQuery
    \/ OtherSessionInsert
    \/ TruncateQuery
    \/ StoreTick

SpecStore == InitStore /\ [][NextStore]_vars

----------------------------------------------------------------------------
(* The validators by themselves: is_valid_name and is_valid_amount applied  *)
(* to a string.  last is the call that was made and what it returned.       *)

Call(function, argument, result) ==
    [function |-> function, argument |-> argument, result |-> result]

NameAlphabet == {"a", "1", "-", " ", "\n"}

\* n letters
LongName(n) == [i \in 1 .. n |-> "a"]

NameStrings ==
    SeqsUpTo(NameAlphabet, MaxTextLen)
        \cup { LongName(MaxNameLen - 1), LongName(MaxNameLen), LongName(MaxNameLen + 1),
               Append(LongName(MaxNameLen - 1), "\n"), Append(LongName(MaxNameLen), "\n") }

AmountAlphabet == {"0", "1", "9", ".", "-", "a"}

\* amounts at the upper limit
BoundaryAmounts ==
    { <<"9", "9", "9", "9", "9", "9", "9", "9">>,
      <<"9", "9", "9", "9", "9", "9", "9", "9", ".", "9", "9">>,
      <<"9", "9", "9", "9", "9", "9", "9", "9", ".", "9", "9", "0">>,
      <<"9", "9", "9", "9", "9", "9", "9", "9", ".", "9", "9", "1">>,
      <<"9", "9", "9", "9", "9", "9", "9", "9", ".", "9", "9", "0", "0", "0", "0", "0", "0", "1">>,
      <<"9", "9", "9", "9", "9", "9", "9", "9", ".", "9", "9", "0", "0", "0", "0", "0", "0", "3">>,
      <<"1", "0", "0", "0", "0", "0", "0", "0", "0">> }

AmountStrings == SeqsUpTo(AmountAlphabet, MaxAmountLen) \cup BoundaryAmounts

InitValidators ==
    /\ ADMIN_IDS = ConfiguredAdmins
    /\ reset_confirmations = NoConfirmations
    /\ society_payments = <<>>
    /\ clock = 1000
    /\ ticks = 0
    /\ tmp_files = {}
    /\ last = Call("none", <<>>, FALSE)

CallIsValidName ==
    /\ last.function = "none"
    /\ \E name \in NameStrings : last' = Call("is_valid_name", name, is_valid_name(name))
    /\ UNCHANGED <<ADMIN_IDS, reset_confirmations, society_payments, clock, ticks, tmp_files>>

CallIsValidAmount ==
    /\ last.function = "none"
    /\ \E amount_str \in AmountStrings :
        last' = Call("is_valid_amount", amount_str, is_valid_amount(amount_str))
    /\ UNCHANGED <<ADMIN_IDS, reset_confirmations, society_payments, clock, ticks, tmp_files>>

NextValidators == CallIsValidName \/ CallIsValidAmount

SpecValidators == InitValidators /\ [][NextValidators]_vars

----------------------------------------------------------------------------
(* The two display-name functions by themselves, applied to a string of      *)
(* letters in either case, "ß" and blanks.                                   *)

DisplayAlphabet == {"a", "A", "ß", " "}

DisplayStrings == SeqsUpTo(DisplayAlphabet, MaxTextLen)

InitCapitalize ==
    /\ ADMIN_IDS = ConfiguredAdmins
    /\ reset_confirmations = NoConfirmations
    /\ society_payments = <<>>
    /\ clock = 1000
    /\ ticks = 0
    /\ tmp_files = {}
    /\ last = Call("none", <<>>, <<>>)

CallCapitalizeFirstLetter ==
    /\ last.function = "none"
    /\ \E text \in DisplayStrings :
        last' = Call("capitalize_first_letter", text, capitalize_first_letter(text))
    /\ UNCHANGED <<ADMIN_IDS, reset_confirmations, society_payments, clock, ticks, tmp_files>>

CallCapitalizeFirst ==
    /\ last.function = "none"
    /\ \E text \in DisplayStrings :
        last' = Call("capitalize_first", text, capitalize_first(text))
    /\ UNCHANGED <<ADMIN_IDS, reset_confirmations, society_payments, clock, ticks, tmp_files>>

NextCapitalize == CallCapitalizeFirstLetter \/ CallCapitalizeFirst

SpecCapitalize == InitCapitalize /\ [][NextCapitalize]_vars

----------------------------------------------------------------------------
(* The reset pair under concurrent dispatch.  A handler is a coroutine: it   *)
(* runs without interruption up to an await that suspends it (a              *)
(* context.bot.send_message; the controller operations are plain calls), and *)
(* when the runtime handles updates concurrently (one task per update) the   *)
(* segments between the awaits of the handlers in flight interleave in any   *)
(* order.  last holds the bag of tasks in flight, for each user the number of *)
(* confirmations /reset has stored and of calls of reset_all_payments, and   *)
(* the segment that ran last.  The table starts with one row.               *)

Task(handler, user_id, awaiting, seen) ==
    [handler |-> handler, user |-> user_id, awaiting |-> awaiting, seen |-> seen]

Segment(name, task) == [segment |-> name, user |-> task.user, seen |-> task.seen]

NoSegment == [segment |-> "none", user |-> 0, seen |-> 0]

InitConcurrent ==
    /\ ADMIN_IDS = ConfiguredAdmins
    /\ reset_confirmations = NoConfirmations
    /\ society_payments = CHOOSE t \in SeedTables : t # <<>>
    /\ clock = 1000
    /\ ticks = 0
    /\ tmp_files = {}
    /\ last = [tasks |-> EmptyBag, dispatched |-> 0,
               requests |-> [u \in Users |-> 0], deletes |-> [u \in Users |-> 0],
               op |-> NoSegment]

\* (a variant that leaves the confirmation where it is until the reply is out)
remove_the_confirmation_late(confs, user_id) == confs

\* "Remove the confirmation": reset_confirmations.pop(user_id, None), in the
\* same segment as the lookup
remove_the_confirmation(confs, user_id) == confirmation_pop(confs, user_id)

\* "Clean up expired confirmation": reset_confirmations.pop(user_id, None),
\* in the segment after the reply
clean_up_expired_confirmation(confs, user_id) == confirmation_pop(confs, user_id)

\* a task is created for an update and runs up to its first await
Started(task, segment) ==
    last' = [last EXCEPT !.tasks = @ (+) SetToBag({task}),
                         !.dispatched = @ + 1,
                         !.op = Segment(segment, task)]

\* /reset, up to the send of its reply
ResetStart ==
    \E user_id \in Users, db \in DbOutcomes :
        /\ last.dispatched < MaxUpdates
        /\ IF ~is_admin(user_id)
           THEN /\ db = "ok"
                /\ Started(Task("reset", user_id, "Denied", 0), "denied")
                /\ UNCHANGED reset_confirmations
           ELSE IF db = "error"
           THEN /\ Started(Task("reset", user_id, "ResetRequestError", 0), "failed")
                /\ UNCHANGED reset_confirmations
           ELSE IF total_payments(society_payments) = 0
           THEN /\ Started(Task("reset", user_id, "NoRecordsToDelete", 0), "nothing")
                /\ UNCHANGED reset_confirmations
           ELSE /\ reset_confirmations' =
                       confirmation_set(reset_confirmations, user_id, clock)
                /\ last' = [last EXCEPT
                       !.tasks = @ (+) SetToBag({Task("reset", user_id, "ResetWarning", 0)}),
                       !.dispatched = @ + 1,
                       !.requests[user_id] = @ + 1,
                       !.op = [segment |-> "request", user |-> user_id, seen |-> 0]]
        /\ UNCHANGED <<ADMIN_IDS, society_payments, clock, ticks, tmp_files>>

\* /confirm_reset, up to the send of its reply: the lookup, and on the valid
\* path the removal and reset_all_payments
ConfirmResetStart ==
    \E user_id \in Users, db \in ResetOutcomes :
        LET confirmation_time == confirmation_get(reset_confirmations, user_id)
            now == clock
            seen == last.requests[user_id]
        IN  /\ last.dispatched < MaxUpdates
            /\ IF ~is_admin(user_id)
               THEN /\ db = "ok"
                    /\ Started(Task("confirm_reset", user_id, "Denied", 0), "denied")
                    /\ UNCHANGED <<reset_confirmations, society_payments>>
               ELSE IF confirmation_invalid(confirmation_time, now)
               THEN /\ db = "ok"
                    /\ Started(Task("confirm_reset", user_id, "NoValidReset", seen),
                               "check")
                    /\ UNCHANGED <<reset_confirmations, society_payments>>
               ELSE /\ reset_confirmations' =
                           remove_the_confirmation(reset_confirmations, user_id)
                    /\ society_payments' =
                           IF db = "error" THEN society_payments ELSE <<>>
                    /\ last' = [last EXCEPT
                           !.tasks = @ (+) SetToBag({Task("confirm_reset", user_id,
                                        IF db = "ok" THEN "ResetComplete" ELSE "ResetError",
                                        seen)}),
                           !.dispatched = @ + 1,
                           !.deletes[user_id] = @ + 1,
                           !.op = [segment |-> "delete", user |-> user_id, seen |-> seen]]
            /\ UNCHANGED <<ADMIN_IDS, clock, ticks, tmp_files>>

\* the tasks in flight without one task
Without(tasks, task) == tasks (-) SetToBag({task})

\* the reply a handler sends from its except branch
ExceptReply(handler) == IF handler = "reset" THEN "ResetRequestError" ELSE "ResetError"

\* a task is resumed after a send that returned
SendReturned ==
    \E task \in BagToSet(last.tasks) :
        LET expired == task.awaiting = "NoValidReset"
        IN  /\ reset_confirmations' =
                   IF expired
                   THEN clean_up_expired_confirmation(reset_confirmations, task.user)
                   ELSE reset_confirmations
            /\ last' = [last EXCEPT
                   !.tasks = Without(@, task),
                   !.op = Segment(IF expired THEN "cleanup" ELSE "return", task)]
            /\ UNCHANGED <<ADMIN_IDS, society_payments, clock, ticks, tmp_files>>

\* a task is resumed by the exception of a send that failed: inside the try
\* block it goes to the except branch and sends the error reply; from the
\* admin check or the except branch the exception leaves the handler, and
\* error_handler sends the generic reply, whose failure is dropped
SendRaised ==
    \E task \in BagToSet(last.tasks) :
        LET reply == IF task.awaiting \in {"NoValidReset", "ResetComplete",
                                           "NoRecordsToDelete", "ResetWarning"}
                    THEN ExceptReply(task.handler)
                    ELSE IF task.awaiting = "GenericError" THEN "none"
                    ELSE "GenericError"
        IN  /\ last' = [last EXCEPT
                   !.tasks = IF reply = "none" THEN Without(@, task)
                             ELSE Without(@, task)
                                      (+) SetToBag({[task EXCEPT !.awaiting = reply]}),
                   !.op = Segment("raise", task)]
            /\ UNCHANGED <<ADMIN_IDS, reset_confirmations, society_payments, clock,
                           ticks, tmp_files>>

\* time passes while tasks are in flight: the time a confirmation is valid
ConcurrentTick ==
    /\ ticks < MaxTicks
    /\ clock' = clock + RESET_TIMEOUT
    /\ ticks' = ticks + 1
    /\ last' = [last EXCEPT !.op = NoSegment]
    /\ UNCHANGED <<ADMIN_IDS, reset_confirmations, society_payments, tmp_files>>

NextConcurrent ==
    \/ ResetStart
    \/ ConfirmResetStart
    \/ SendReturned
    \/ SendRaised
    \/ ConcurrentTick

SpecConcurrent == InitConcurrent /\ [][NextConcurrent]_vars

----------------------------------------------------------------------------
(* The dispatch loop with its scheduling: every handler, on an empty table   *)
(* or on one row, at one time of day.  The Application awaits the handler    *)
(* of an update (and error_handler after it) and then takes the next update: *)
(* a handler that has returned or raised is always followed by the return to *)
(* the update loop.                                                          *)

InitLoop ==
    /\ ADMIN_IDS = ConfiguredAdmins
    /\ reset_confirmations = NoConfirmations
    /\ society_payments \in SeedTables
    /\ clock = 1000
    /\ ticks = 0
    /\ tmp_files = {}
    /\ last = Idle

NextLoop ==
    \/ StartCommand
    \/ HelpCommand
    \/ TableCommand
    \/ TodayCommand
    \/ MonthCommand
    \/ MemberCommand
    \/ ExportCommand({"ok", "save_error"})
    \/ StatsCommand
    \/ ResetCommand
    \/ ConfirmResetCommand
    \/ PaymentMessage(ChatTexts)
    \/ update_fetcher

SpecLoop == InitLoop /\ [][NextLoop]_vars /\ WF_vars(update_fetcher)

----------------------------------------------------------------------------
(* Reading a step: the update handled in it and what its handler did *)

\* this step runs the handler h (last' describes the run, the unprimed
\* variables the state it started in)
Step(h) == last = Idle /\ last'.handler = h

FirstReply(l) == IF l.sent = <<>> THEN "none" ELSE l.sent[1].kind
FirstReplyN(l) == IF l.sent = <<>> THEN 0 ELSE l.sent[1].n

AdminCommands ==
    {"table", "today", "month", "member", "export", "stats", "reset", "confirm_reset"}

NoHyphen(text) == \A i \in 1 .. Len(text) : text[i] # "-"

RECURSIVE HyphenCount(_)
HyphenCount(text) ==
    IF text = <<>> THEN 0
    ELSE (IF Head(text) = "-" THEN 1 ELSE 0) + HyphenCount(Tail(text))

\* the two trimmed segments of a text with exactly one hyphen
HyphenAt(text) == CHOOSE i \in 1 .. Len(text) : text[i] = "-"
LeftSegment(text) == strip(SubSeq(text, 1, HyphenAt(text) - 1))
RightSegment(text) == strip(SubSeq(text, HyphenAt(text) + 1, Len(text)))

\* a name-amount message that passes both validators
ValidPayment(text) ==
    /\ HyphenCount(text) = 1
    /\ is_valid_name(LeftSegment(text))
    /\ is_valid_amount(RightSegment(text))

StateUntouched == UNCHANGED <<society_payments, reset_confirmations, tmp_files>>

----------------------------------------------------------------------------
(* The reset confirmation state machine *)

\* C1: an admin whose pending confirmation is less than 60 seconds old sends
\* /confirm_reset: the confirmation is removed (also when delete-all then
\* raises), delete-all is the one controller operation called, and when it
\* returns the table is empty and the first reply is the reset-complete
\* message carrying the number of rows the table held before.
C1_ConfirmWithinWindow ==
    [][ ( /\ Step("confirm_reset")
          /\ last'.user \in ADMIN_IDS
          /\ last'.user \in DOMAIN reset_confirmations
          /\ clock - reset_confirmations[last'.user] < 60 )
        => ( /\ last'.user \notin DOMAIN reset_confirmations'
             /\ last'.calls = <<"reset_all_payments">>
             /\ last'.db = "ok" =>
                  /\ society_payments' = <<>>
                  /\ FirstReply(last') = "ResetComplete"
                  /\ FirstReplyN(last') = Len(society_payments) )
      ]_vars

\* a /confirm_reset 59 seconds after the /reset emptied a table with rows
C1_Witness ==
    /\ last.handler = "confirm_reset"
    /\ last.pending # 0
    /\ clock - last.pending = 59
    /\ last.rows >= 1
    /\ society_payments = <<>>
    /\ FirstReply(last) = "ResetComplete"
    /\ last.user \notin DOMAIN reset_confirmations

\* C2: an admin whose pending confirmation is 60 seconds old or older sends
\* /confirm_reset: no row is deleted, delete-all is not called, the reply is
\* the no-valid-request message, and the confirmation is removed.
C2_ExpiredConsumed ==
    [][ ( /\ Step("confirm_reset")
          /\ last'.user \in ADMIN_IDS
          /\ last'.user \in DOMAIN reset_confirmations
          /\ clock - reset_confirmations[last'.user] >= 60 )
        => ( /\ society_payments' = society_payments
             /\ last'.calls = <<>>
             /\ FirstReply(last') = "NoValidReset"
             /\ last'.user \notin DOMAIN reset_confirmations' )
      ]_vars

\* C3: an admin with no pending confirmation sends /confirm_reset: the
\* confirmations and the table stay as they are, no controller operation is
\* called, and the reply is the no-valid-request message.
C3_ConfirmWithoutRequest ==
    [][ ( /\ Step("confirm_reset")
          /\ last'.user \in ADMIN_IDS
          /\ last'.user \notin DOMAIN reset_confirmations )
        => ( /\ reset_confirmations' = reset_confirmations
             /\ society_payments' = society_payments
             /\ last'.calls = <<>>
             /\ FirstReply(last') = "NoValidReset" )
      ]_vars

\* such a /confirm_reset, sent while the table has rows and another admin has
\* a pending confirmation
C3_Witness ==
    /\ last.handler = "confirm_reset"
    /\ last.user \in ADMIN_IDS
    /\ last.pending = 0
    /\ FirstReply(last) = "NoValidReset"
    /\ society_payments # <<>>
    /\ DOMAIN reset_confirmations # {}

\* C4: /reset by an admin with no pending confirmation leaves a pending
\* confirmation stamped with the current time exactly when get_payment_stats
\* returned and counted at least one row; when it counted none the reply is
\* the nothing-to-delete message and the confirmations are unchanged.  No
\* /reset, by anyone, changes the table.
C4_ResetRequest ==
    [][ /\ ( /\ Step("reset")
             /\ last'.user \in ADMIN_IDS
             /\ last'.user \notin DOMAIN reset_confirmations )
           => LET reported == last'.db = "ok" /\ Len(society_payments) >= 1
              IN  /\ last'.user \in DOMAIN reset_confirmations' <=> reported
                  /\ reported => reset_confirmations'[last'.user] = clock
                  /\ (last'.db = "ok" /\ Len(society_payments) = 0)
                       => /\ FirstReply(last') = "NoRecordsToDelete"
                          /\ reset_confirmations' = reset_confirmations
        /\ Step("reset") => society_payments' = society_payments
      ]_vars

\* a /reset that made an admin without a confirmation pending
C4_Witness ==
    /\ last.handler = "reset"
    /\ last.user \in ADMIN_IDS
    /\ last.pending = 0
    /\ last.rows >= 1
    /\ last.user \in DOMAIN reset_confirmations
    /\ reset_confirmations[last.user] = clock
    /\ FirstReply(last) = "ResetWarning"

\* C5 as stated: every /reset of an admin who is already pending overwrites
\* the stored time with the current time.
C5_AlwaysOverwrites ==
    [][ ( /\ Step("reset")
          /\ last'.user \in ADMIN_IDS
          /\ last'.user \in DOMAIN reset_confirmations )
        => ( /\ last'.user \in DOMAIN reset_confirmations'
             /\ reset_confirmations'[last'.user] = clock )
      ]_vars

\* C5, amended: a /reset of an admin who is already pending overwrites the
\* stored time with the current time when get_payment_stats returned and
\* counted at least one row, and leaves the stored time as it was otherwise;
\* either way the user keeps one confirmation and the confirmations of the
\* other users are unchanged.
C5_OverwritesWhenRecords ==
    [][ ( /\ Step("reset")
          /\ last'.user \in ADMIN_IDS
          /\ last'.user \in DOMAIN reset_confirmations )
        => ( /\ DOMAIN reset_confirmations' = DOMAIN reset_confirmations
             /\ reset_confirmations'[last'.user] =
                  IF last'.db = "ok" /\ Len(society_payments) >= 1
                  THEN clock
                  ELSE reset_confirmations[last'.user]
             /\ \A u \in DOMAIN reset_confirmations \ {last'.user} :
                  reset_confirmations'[u] = reset_confirmations[u] )
      ]_vars

\* a second /reset, later than the first, restarted the window
C5_Witness ==
    /\ last.handler = "reset"
    /\ last.pending # 0
    /\ last.pending < clock
    /\ last.user \in DOMAIN reset_confirmations
    /\ reset_confirmations[last.user] = clock

----------------------------------------------------------------------------
(* Authorization *)

\* C6: each of the eight admin commands, sent by a user who is not in
\* ADMIN_IDS, is answered with the denial (followed at most by the generic
\* error reply, when the denial could not be sent), calls no controller
\* operation and leaves the confirmations, the table and the files unchanged.
C6_NonAdminDenied ==
    [][ ( /\ last = Idle
          /\ last'.handler \in AdminCommands
          /\ last'.user \notin ADMIN_IDS )
        => ( /\ FirstReply(last') = "Denied"
             /\ \A i \in 2 .. Len(last'.sent) : last'.sent[i].kind = "GenericError"
             /\ last'.calls = <<>>
             /\ StateUntouched )
      ]_vars

\* a denied /confirm_reset, sent while an admin's confirmation is pending and
\* the table has rows
C6_Witness ==
    /\ last.handler = "confirm_reset"
    /\ last.user \notin ADMIN_IDS
    /\ last.sent = <<[kind |-> "Denied", n |-> 0, ok |-> TRUE]>>
    /\ DOMAIN reset_confirmations # {}
    /\ society_payments # <<>>

----------------------------------------------------------------------------
(* Payment records *)

\* C7: in every step the table is unchanged, or gains exactly one row behind
\* the rows it had (in the handler of a valid name-amount message, by
\* insert_payment), or becomes empty (in /confirm_reset, by
\* reset_all_payments); a row that is there is never changed.
C7_RecordLifecycle ==
    [][ \/ society_payments' = society_payments
        \/ /\ Len(society_payments') = Len(society_payments) + 1
           /\ SubSeq(society_payments', 1, Len(society_payments)) = society_payments
           /\ last'.handler = "payment_message"
           /\ ValidPayment(strip(last'.text))
           /\ last'.calls = <<"insert_payment">>
        \/ /\ society_payments' = <<>>
           /\ last'.handler = "confirm_reset"
           /\ last'.calls = <<"reset_all_payments">>
      ]_vars

\* a message added a row
C7_Witness ==
    /\ last.handler = "payment_message"
    /\ last.calls = <<"insert_payment">>
    /\ Len(society_payments) = last.rows + 1

----------------------------------------------------------------------------
(* The message handler, on every text up to MaxTextLen (SpecMsg) *)

\* C8: a text message without a hyphen gets no reply, calls no controller
\* operation and changes nothing, whoever sent it.
C8_NoHyphenIgnored ==
    [][ ( Step("payment_message") /\ NoHyphen(last'.text) )
        => ( /\ last'.sent = <<>>
             /\ last'.calls = <<>>
             /\ StateUntouched )
      ]_vars

\* a text of letters and digits without a hyphen, from a user who is no admin
C8_Witness ==
    /\ last.handler = "payment_message"
    /\ last.user \notin ADMIN_IDS
    /\ NoHyphen(last.text)
    /\ strip(last.text) # <<>>
    /\ last.sent = <<>>

\* C9: a text message with two or more hyphens (three or more segments) is
\* answered with the invalid-format reply and inserts nothing.
C9_WrongSegmentCount ==
    [][ ( Step("payment_message") /\ HyphenCount(last'.text) >= 2 )
        => ( /\ FirstReply(last') = "InvalidFormat"
             /\ last'.calls = <<>>
             /\ StateUntouched )
      ]_vars

\* name-amount followed by one more hyphen
C9_Witness ==
    /\ last.handler = "payment_message"
    /\ last.text = <<"a", "-", "1", "-">>
    /\ last.sent = <<[kind |-> "InvalidFormat", n |-> 0, ok |-> TRUE]>>

\* C10: a text message with exactly one hyphen whose name segment or amount
\* segment fails its validator is answered with the one invalid-format reply,
\* the reply of C9, whichever check failed, and inserts nothing.
C10_SameInvalidReply ==
    [][ ( /\ Step("payment_message")
          /\ HyphenCount(last'.text) = 1
          /\ \/ ~is_valid_name(LeftSegment(strip(last'.text)))
             \/ ~is_valid_amount(RightSegment(strip(last'.text))) )
        => ( /\ last'.sent # <<>>
             /\ [kind |-> last'.sent[1].kind, n |-> last'.sent[1].n] = Msg("InvalidFormat")
             /\ last'.calls = <<>>
             /\ StateUntouched )
      ]_vars

\* a valid name with an amount that is no number
C10_Witness ==
    /\ last.handler = "payment_message"
    /\ last.text = <<"a", "-", "a">>
    /\ last.sent = <<[kind |-> "InvalidFormat", n |-> 0, ok |-> TRUE]>>

----------------------------------------------------------------------------
(* Recording a payment (SpecMsg) *)

\* C11: a name-amount message whose two trimmed segments pass is_valid_name
\* and is_valid_amount, from any sender, calls insert_payment exactly once and
\* nothing else; when the insert returns, the table has gained one row with
\* the trimmed name, the parsed amount (as the DECIMAL(10, 2) column keeps it)
\* and the sender's id, and the first reply is the success message showing
\* that amount.
C11_ValidMessageRecorded ==
    [][ ( Step("payment_message") /\ ValidPayment(strip(last'.text)) )
        => ( /\ last'.calls = <<"insert_payment">>
             /\ last'.db = "ok" =>
                  LET text == strip(last'.text)
                      amount == decimal_10_2(parse_float(RightSegment(text)))
                  IN  /\ Len(society_payments') = Len(society_payments) + 1
                      /\ society_payments'[Len(society_payments')] =
                            [id |-> Len(society_payments) + 1,
                             member_name |-> LeftSegment(text),
                             amount |-> amount,
                             recorded_by |-> last'.user,
                             payment_date |-> clock]
                      /\ FirstReply(last') = "Success"
                      /\ FirstReplyN(last') = amount )
      ]_vars

\* " a-1" from a user who is no admin stored the row (a, 1.00, sender)
C11_Witness ==
    /\ last.handler = "payment_message"
    /\ last.user \notin ADMIN_IDS
    /\ last.text = <<" ", "a", "-", "1">>
    /\ last.sent = <<[kind |-> "Success", n |-> 100, ok |-> TRUE]>>
    /\ Len(society_payments) = 1
    /\ society_payments[1].member_name = <<"a">>
    /\ society_payments[1].amount = 100
    /\ society_payments[1].recorded_by = last.user

\* C12: when insert_payment raises, at the INSERT or at the read-back SELECT
\* after it, the first reply is the payment-failed message, insert_payment was
\* called once, and the table is as it was before the message.
C12_FailedInsertLeavesNothing ==
    [][ ( /\ Step("payment_message")
          /\ last'.calls # <<>>
          /\ last'.db # "ok" )
        => ( /\ FirstReply(last') = "PaymentFailed"
             /\ last'.calls = <<"insert_payment">>
             /\ society_payments' = society_payments )
      ]_vars

\* C13: every row of the table has an amount that is positive and at most
\* 99999999.99 (amounts are kept in hundredths), whatever accepted message
\* wrote it.
C13_AmountsPositiveInRange ==
    \A i \in 1 .. Len(society_payments) :
        /\ society_payments[i].amount > 0
        /\ society_payments[i].amount \div 100 <= 99999999

----------------------------------------------------------------------------
(* The Payment Store (SpecStore) *)

\* C14: the deleted_count that reset_all_payments returns is the number of
\* rows its TRUNCATE removed, also when another session inserted a row between
\* the count and the TRUNCATE.
C14_DeletedCountIsRemoved ==
    last.handler = "reset_all_payments" => last.result.deleted_count = last.result.removed

\* C17: a get_last_payments that follows an insert_payment directly returns
\* the inserted row as its first element, also when the table holds other
\* rows of the same second.
C17_InsertedRowFirst ==
    [][ ( last.handler = "insert_payment" /\ last'.handler = "get_last_payments" )
        => ( /\ last'.result # <<>>
             /\ last'.result[1] = last.result )
      ]_vars

----------------------------------------------------------------------------
(* The validators (SpecValidators) *)

\* C15: is_valid_name(name) is true exactly when name has 1 to 100 characters
\* and every one of them is a letter; a name with a digit, a hyphen, a blank or a
\* newline (a trailing one included) is not valid.
C15_NameValidIffLetters ==
    last.function = "is_valid_name"
        => ( last.result <=>
               /\ Len(last.argument) >= 1
               /\ Len(last.argument) <= 100
               /\ \A i \in 1 .. Len(last.argument) : last.argument[i] \in Letters )

\* the number a text denotes is above 0 and at most 99999999.99
DecimalInRange(v) ==
    /\ ~v.neg
    /\ v.whole > 0 \/ ~frac_is_zero_from(v.frac, 1)
    /\ \/ v.whole < 99999999
       \/ v.whole = 99999999 /\ ~frac_less(<<"9", "9">>, v.frac, 1)

\* C16: is_valid_amount(text) is true exactly when text is a decimal number
\* above 0 and at most 99999999.99.
C16_AmountValidIffInRange ==
    last.function = "is_valid_amount"
        => ( last.result <=>
               /\ parse_float(last.argument).ok
               /\ DecimalInRange(parse_float(last.argument)) )

----------------------------------------------------------------------------
(* The reporting commands *)

ReportingCommands == {"table", "today", "month", "member", "export", "stats", "reset"}

EmptyStateReplies ==
    {"NoRecordsFound", "NoMemberRecords", "NoRecordsToExport", "NoRecordsToDelete"}

\* an admin runs a reporting command on a table without rows (a /member
\* with its argument), the store answers and every send returns
ReportOnEmptyStore ==
    /\ last = Idle
    /\ last'.handler \in ReportingCommands
    /\ last'.user \in ADMIN_IDS
    /\ last'.db = "ok"
    /\ society_payments = <<>>
    /\ last'.handler = "member" => last'.args # <<>>
    /\ \A i \in 1 .. Len(last'.sent) : last'.sent[i].ok

RepliesOf(l) == [i \in 1 .. Len(l.sent) |-> [kind |-> l.sent[i].kind, n |-> l.sent[i].n]]

\* C18 as stated: every reporting command answers an empty store with an
\* empty-state message.
C18_EmptyStateEverywhere ==
    [][ ReportOnEmptyStore
        => \E i \in 1 .. Len(last'.sent) : last'.sent[i].kind \in EmptyStateReplies
      ]_vars

\* C18, amended: on an empty store /table, /stats, /member, /export and
\* /reset answer with their empty-state message (after the progress message,
\* for /export), and /today and /month answer with their totals message
\* showing zero payments.
C18_EmptyStateOrZeroTotals ==
    [][ ReportOnEmptyStore
        => RepliesOf(last') =
             CASE last'.handler \in {"table", "stats"} -> << Msg("NoRecordsFound") >>
               [] last'.handler = "member" -> << Msg("NoMemberRecords") >>
               [] last'.handler = "reset"  -> << Msg("NoRecordsToDelete") >>
               [] last'.handler = "export" -> << Msg("Generating"), Msg("NoRecordsToExport") >>
               [] last'.handler = "today"  -> << MsgN("TodayTotal", 0) >>
               [] last'.handler = "month"  -> << MsgN("MonthTotal", 0) >>
      ]_vars

\* /today of an admin on an empty table was answered with zero totals
C18_Witness ==
    /\ last.handler = "today"
    /\ last.user \in ADMIN_IDS
    /\ last.rows = 0
    /\ last.db = "ok"
    /\ last.sent = <<[kind |-> "TodayTotal", n |-> 0, ok |-> TRUE]>>

----------------------------------------------------------------------------
(* /export (SpecExport) *)

SaveDone(l) == \E i \in 1 .. Len(l.fs) : l.fs[i].op = "save" /\ l.fs[i].ok
RemoveDone(l) == \E i \in 1 .. Len(l.fs) : l.fs[i].op = "remove" /\ l.fs[i].ok
RemoveFailed(l) == \E i \in 1 .. Len(l.fs) : l.fs[i].op = "remove" /\ ~l.fs[i].ok

\* C19 as stated: after an /export, on every path, the file that run wrote is
\* not in the temporary directory.
C19_NoArtifactRemains ==
    [][ ( Step("export") /\ SaveDone(last') ) => export_filepath \notin tmp_files' ]_vars

\* C19, amended: on every path of an /export that wrote its file the handler
\* tries to remove it; after a removal that returned the file is gone, a file
\* is in the temporary directory after the run that was not there before only
\* when the removal itself failed, and no other file is touched.
C19_ArtifactRemovedUnlessRemoveFails ==
    [][ Step("export")
        => ( /\ SaveDone(last') => RemoveDone(last') \/ RemoveFailed(last')
             /\ RemoveDone(last') => export_filepath \notin tmp_files'
             /\ (export_filepath \in tmp_files' /\ export_filepath \notin tmp_files)
                  => RemoveFailed(last')
             /\ tmp_files' \ {export_filepath} = tmp_files \ {export_filepath} )
      ]_vars

\* an /export whose send_document failed removed its file
C19_Witness ==
    /\ last.handler = "export"
    /\ Len(last.sent) >= 2
    /\ last.sent[2].kind = "Document"
    /\ ~last.sent[2].ok
    /\ SaveDone(last)
    /\ RemoveDone(last)
    /\ tmp_files = {}

RECURSIVE SumOfAmounts(_)
SumOfAmounts(rows) ==
    IF rows = <<>> THEN 0 ELSE rows[1].amount + SumOfAmounts(Tail(rows))

\* the worksheet that the run saved
SavedSheet(l) == l.fs[CHOOSE i \in 1 .. Len(l.fs) : l.fs[i].op = "save" /\ l.fs[i].ok].sheet

\* C20: an /export of an admin on an empty table sends the empty-state
\* message and writes no file; on N >= 1 rows the worksheet it saves has
\* exactly N + 2 rows: the header, one row per payment, and in row N + 2 the
\* TOTAL row with the sum of the N amounts.
C20_SheetHasNPlus2Rows ==
    [][ ( /\ Step("export")
          /\ last'.user \in ADMIN_IDS
          /\ last'.db = "ok"
          /\ last'.sent[1].ok )
        => LET N == Len(society_payments)
           IN  IF N = 0
               THEN /\ last'.sent[2].kind = "NoRecordsToExport"
                    /\ last'.fs = <<>>
                    /\ tmp_files' = tmp_files
               ELSE SaveDone(last')
                    => /\ Len(SavedSheet(last')) = N + 2
                       /\ SavedSheet(last')[1].kind = "header"
                       /\ \A i \in 1 .. N :
                            SavedSheet(last')[i + 1] =
                                [kind |-> "payment", amount |-> society_payments[i].amount]
                       /\ SavedSheet(last')[N + 2] =
                            [kind |-> "TOTAL", amount |-> SumOfAmounts(society_payments)]
      ]_vars

----------------------------------------------------------------------------
(* The dispatch loop (SpecLoop) *)

\* the replies the handler itself sent, and those of error_handler
OwnReplies(l) == SelectSeq(l.sent, LAMBDA m : m.kind # "GenericError")
GenericReplies(l) == SelectSeq(l.sent, LAMBDA m : m.kind = "GenericError")

\* an exception left the handler: the last send it made raised (a send in the
\* admin check, outside a try block, or in the handler's except branch)
HandlerFailed(l) ==
    /\ OwnReplies(l) # <<>>
    /\ ~OwnReplies(l)[Len(OwnReplies(l))].ok

\* the update loop takes updates: the handler of an update of user u can run
Processes(u) ==
    /\ ENABLED (StartCommand /\ last'.user = u)
    /\ ENABLED (ConfirmResetCommand /\ last'.user = u)
    /\ ENABLED (PaymentMessage(ChatTexts) /\ last'.user = u)

\* C21 as stated: a handler that failed is answered with the generic error
\* reply, which the user sees.
C21_FailureVisiblyAnswered ==
    [][ ( last = Idle /\ last' # Idle /\ HandlerFailed(last') )
        => \E i \in 1 .. Len(last'.sent) :
               last'.sent[i].kind = "GenericError" /\ last'.sent[i].ok
      ]_vars

\* C21, amended: after an exception left a handler, error_handler tries once
\* to send the generic error reply, as the last send of the run, and a failure
\* of that send is dropped; after a handler that did not fail no generic reply
\* is sent.  Either way the loop returns to taking updates, where the
\* handlers of every user can run.
C21_FailureAnsweredLoopContinues ==
    /\ [][ ( last = Idle /\ last' # Idle )
            => ( /\ Len(GenericReplies(last')) = (IF HandlerFailed(last') THEN 1 ELSE 0)
                 /\ HandlerFailed(last') => last'.sent[Len(last'.sent)].kind = "GenericError" )
          ]_vars
    /\ (last # Idle) ~> (last = Idle)
    /\ [](last = Idle => \A u \in Users : Processes(u))

\* a /confirm_reset whose delete-all raised and whose error reply could not be
\* sent was answered with the generic reply, and the loop went on to a
\* message of another user
C21_Witness ==
    /\ last.handler = "confirm_reset"
    /\ last.db = "error"
    /\ last.sent = << [kind |-> "ResetError", n |-> 0, ok |-> FALSE],
                      [kind |-> "GenericError", n |-> 0, ok |-> TRUE] >>

----------------------------------------------------------------------------
(* /member (SpecLoop) *)

\* C22: a /member of an admin without an argument is answered with the usage
\* message (followed at most by the generic error reply, when the usage
\* message could not be sent), calls no controller operation and changes
\* nothing; with an argument it calls get_member_payments, once.  No /member
\* calls a controller operation without an argument.
C22_MemberUsageWithoutLookup ==
    [][ Step("member")
        => ( /\ (last'.user \in ADMIN_IDS /\ last'.args = <<>>)
                  => /\ RepliesOf([sent |-> OwnReplies(last')]) = << Msg("MemberUsage") >>
                     /\ last'.calls = <<>>
                     /\ StateUntouched
             /\ (last'.user \in ADMIN_IDS /\ last'.args # <<>>)
                  => last'.calls = << "get_member_payments" >>
             /\ last'.calls # <<>> => last'.args # <<>> )
      ]_vars

\* a /member of an admin without an argument, sent while the table has a row,
\* got the usage message
C22_Witness ==
    /\ last.handler = "member"
    /\ last.user \in ADMIN_IDS
    /\ last.args = <<>>
    /\ last.sent = << [kind |-> "MemberUsage", n |-> 0, ok |-> TRUE] >>
    /\ last.calls = <<>>
    /\ society_payments # <<>>

----------------------------------------------------------------------------
(* The admin set *)

\* C23: in every state after startup ADMIN_IDS is the set that
\* load_admin_ids read from the configuration: no command handler, message
\* handler or error handler changes it.
C23_AdminSetFixed == ADMIN_IDS = ConfiguredAdmins

\* after a /reset of an admin, answered with the warning, and with time gone
\* by since startup, the admin set is the configured one
C23_Witness ==
    /\ last.handler = "reset"
    /\ last.user \in ConfiguredAdmins
    /\ FirstReply(last) = "ResetWarning"
    /\ ticks >= 1
    /\ ADMIN_IDS = ConfiguredAdmins

----------------------------------------------------------------------------
(* The display name (SpecCapitalize) *)

CapitalizeFunctions == {"capitalize_first_letter", "capitalize_first"}

\* the function that a call applied
Applied(function, text) ==
    IF function = "capitalize_first" THEN capitalize_first(text)
    ELSE capitalize_first_letter(text)

\* the first character in upper case, every other character in lower case
FirstUpperRestLower(text, result) ==
    IF text = <<>> THEN result = <<>>
    ELSE /\ result = str_upper(<<text[1]>>) \o str_lower(Tail(text))
         /\ \A i \in 2 .. Len(text) :
              result[Len(result) - Len(text) + i] \notin {"A", "S"}

\* C24 as stated: each of the two functions returns the text with its first
\* character in upper case and the others in lower case (the empty text
\* unchanged), applied to its own result it returns that result, and the two
\* functions agree.
C24_CapitalizeIdempotent ==
    last.function \in CapitalizeFunctions
        => ( /\ FirstUpperRestLower(last.argument, last.result)
             /\ Applied(last.function, last.result) = last.result
             /\ capitalize_first(last.argument) = capitalize_first_letter(last.argument) )

\* C24, amended: as stated, with the second application returning the result
\* of the first for every text whose first character has an upper case form
\* of one character.
C24_CapitalizeIdempotentOneLetterUpper ==
    last.function \in CapitalizeFunctions
        => ( /\ FirstUpperRestLower(last.argument, last.result)
             /\ (last.argument # <<>> /\ Len(str_upper(<<last.argument[1]>>)) = 1)
                  => Applied(last.function, last.result) = last.result
             /\ last.argument = <<>> => Applied(last.function, last.result) = <<>>
             /\ capitalize_first(last.argument) = capitalize_first_letter(last.argument) )

\* capitalize_first_letter of "aA A" returned "Aa a": the second word stays
\* in lower case
C24_Witness ==
    /\ last.function = "capitalize_first_letter"
    /\ last.argument = <<"a", "A", " ", "A">>
    /\ last.result = <<"A", "a", " ", "a">>

----------------------------------------------------------------------------
(* Who can delete *)

\* C25: reset_all_payments is called only in the handler of a /confirm_reset
\* whose sender is in ADMIN_IDS and has, when the handler starts, a pending
\* confirmation less than 60 seconds old; and a user's pending confirmation
\* is written only by the handler of that user's own /reset, with the time of
\* that /reset: a /reset of one admin gives no other user a confirmation.
C25_DeleteOnlyAfterOwnReset ==
    [][ /\ ( /\ last = Idle
             /\ \E i \in 1 .. Len(last'.calls) : last'.calls[i] = "reset_all_payments" )
           => ( /\ last'.handler = "confirm_reset"
                /\ last'.user \in ADMIN_IDS
                /\ last'.user \in DOMAIN reset_confirmations
                /\ clock - reset_confirmations[last'.user] < 60
                /\ clock - reset_confirmations[last'.user] >= 0 )
        /\ \A u \in DOMAIN reset_confirmations' :
              ( u \notin DOMAIN reset_confirmations
                \/ reset_confirmations'[u] # reset_confirmations[u] )
              => ( /\ last'.handler = "reset"
                   /\ last'.user = u
                   /\ u \in ADMIN_IDS
                   /\ reset_confirmations'[u] = clock )
      ]_vars

\* an admin's /confirm_reset 59 seconds after that admin's /reset called
\* reset_all_payments while the other admin's confirmation stayed pending
C25_Witness ==
    /\ last.handler = "confirm_reset"
    /\ last.calls = << "reset_all_payments" >>
    /\ last.user \in ADMIN_IDS
    /\ clock - last.pending = 59
    /\ DOMAIN reset_confirmations = ADMIN_IDS \ {last.user}

----------------------------------------------------------------------------
(* The reset pair under concurrent dispatch (SpecConcurrent) *)

\* C26: however the segments of concurrently dispatched handlers interleave,
\* a user's calls of reset_all_payments never outnumber the confirmations
\* that user's /reset stored, and every call is made in the segment that
\* looked the confirmation up and removed it: the segment starts with the
\* user's confirmation pending and ends with it removed.
C26_OneDeletePerRequest ==
    /\ [](\A u \in Users : last.deletes[u] <= last.requests[u])
    /\ [][ \A u \in Users :
              last'.deletes[u] # last.deletes[u]
              => ( /\ last'.deletes[u] = last.deletes[u] + 1
                   /\ u \in DOMAIN reset_confirmations
                   /\ u \notin DOMAIN reset_confirmations' )
          ]_vars

\* two /confirm_reset of one admin were in flight after one /reset: one
\* called reset_all_payments, the other found no confirmation
C26_Witness ==
    /\ \E u \in ADMIN_IDS :
          /\ last.requests[u] = 1
          /\ last.deletes[u] = 1
          /\ BagIn(Task("confirm_reset", u, "ResetComplete", 1), last.tasks)
          /\ BagIn(Task("confirm_reset", u, "NoValidReset", 1), last.tasks)

\* C27: the cleanup of a /confirm_reset that found no valid confirmation,
\* run after its reply has been sent, never removes a confirmation that a
\* /reset of the same user stored after that check.
C27_CleanupKeepsNewerRequest ==
    [][ last'.op.segment = "cleanup"
        => ~( /\ last'.op.user \in DOMAIN reset_confirmations
              /\ last.requests[last'.op.user] > last'.op.seen
              /\ last'.op.user \notin DOMAIN reset_confirmations' )
      ]_vars

----------------------------------------------------------------------------
(* A delete-all that fails *)

\* C28: when reset_all_payments raises in the /confirm_reset of an admin
\* whose confirmation is pending and less than 60 seconds old, the
\* confirmation is removed (a further /confirm_reset finds none), the table
\* is as it was, and the first reply is the reset error message.
C28_FailedDeleteKeepsRecords ==
    [][ ( /\ Step("confirm_reset")
          /\ last'.user \in ADMIN_IDS
          /\ last'.user \in DOMAIN reset_confirmations
          /\ clock - reset_confirmations[last'.user] < 60
          /\ last'.db # "ok" )
        => ( /\ last'.calls = << "reset_all_payments" >>
             /\ last'.user \notin DOMAIN reset_confirmations'
             /\ confirmation_invalid(
                    confirmation_get(reset_confirmations', last'.user), clock)
             /\ society_payments' = society_payments
             /\ FirstReply(last') = "ResetError" )
      ]_vars

----------------------------------------------------------------------------
(* Reply and store after a payment message (SpecMsg) *)

Replied(l, kind) == \E i \in 1 .. Len(l.sent) : l.sent[i].kind = kind

\* C29: after the handler of a message with a hyphen, when the payment-failed
\* reply was sent the table holds no row of that message, and when the table
\* has gained a row the reply is the success reply and not the payment-failed
\* one, also when the send of the success reply raised after the insert.
C29_ReplyMatchesStore ==
    [][ ( Step("payment_message") /\ has_hyphen(last'.text) )
        => ( /\ Replied(last', "PaymentFailed") => society_payments' = society_payments
             /\ society_payments' # society_payments
                  => ( FirstReply(last') = "Success" /\ ~Replied(last', "PaymentFailed") ) )
      ]_vars

----------------------------------------------------------------------------
(* The reset confirmation store *)

\* C30: in every state every user with an entry in reset_confirmations is in
\* ADMIN_IDS, and the entry of a user is one timestamp (the time of a /reset,
\* not later than now).
C30_PendingAreAdmins ==
    /\ DOMAIN reset_confirmations \subseteq ADMIN_IDS
    /\ \A u \in DOMAIN reset_confirmations :
          /\ reset_confirmations[u] \in Int
          /\ reset_confirmations[u] <= clock

\* a /reset of a user who is no admin, sent while the table has a row and an
\* admin is pending, was denied and the store holds the admin's entry only
C30_Witness ==
    /\ last.handler = "reset"
    /\ last.user \notin ADMIN_IDS
    /\ FirstReply(last) = "Denied"
    /\ society_payments # <<>>
    /\ DOMAIN reset_confirmations # {}
    /\ last.user \notin DOMAIN reset_confirmations

====
